---- MODULE Spec2Model ----
(***************************************************************************)
(* Model of the NIFTY intraday strategy pipeline of src/Rust/main.rs:      *)
(* ticks -> 5-minute bars -> signal candles -> trading signals -> trades   *)
(* -> performance metrics.                                                 *)
(*                                                                         *)
(* Numbers.  Prices and volumes are integers.  A P&L amount (gross_pnl,    *)
(* net_pnl, total_pnl, max_drawdown) is an integer count of 1/2500 price   *)
(* units, in which the transaction cost factor 0.0012 = 3/2500 is exact.   *)
(* A quotient the code computes is kept as an exact fraction               *)
(* <<numerator, denominator>>, and the quotient by a square root as        *)
(* [num, rad], standing for num / sqrt(rad).  Floating-point rounding is   *)
(* modelled where it decides a branch of the code (see sharpe_outcomes);   *)
(* NaN is not modelled.                                                    *)
(*                                                                         *)
(* Times.  A time of day is hour, minute, second and nanosecond.  The      *)
(* accepted formats have no fraction, so the nanosecond of a parsed time   *)
(* is 0, except for the text ":60", which chrono reads as a leap second:   *)
(* second 59 with nanosecond 1000000000.                                   *)
(*                                                                         *)
(* Option<T> is a sequence of length at most one: None is <<>>, Some(x)    *)
(* is <<x>>.                                                               *)
(***************************************************************************)
EXTENDS Integers, Sequences, FiniteSets, TLC

VARIABLES
    pc,           \* position of main() in the pipeline
    parsed_data,  \* the parsed rows of the CSV file, in file order
    data,         \* NiftyStrategy.data
    trades,       \* NiftyStrategy.trades
    metrics       \* Option<PerformanceMetrics>: the local `metrics` of main()

vars == <<pc, parsed_data, data, trades, metrics>>

----------------------------------------------------------------------------
(* Option, dates and times                                                 *)

None == <<>>

Some(x) == <<x>>

\* NaiveTime::from_hms_opt(h, m, s).unwrap()
from_hms(h, m, s) == [hour |-> h, minute |-> m, second |-> s, nanosecond |-> 0]

\* the time NaiveDateTime::parse_from_str reads from "HH:MM:SS", SS in 00..60:
\* ":60" is a leap second, kept as second 59 and nanosecond 1000000000
parse_hms(h, m, s) ==
    IF s = 60
    THEN [hour |-> h, minute |-> m, second |-> 59, nanosecond |-> 1000000000]
    ELSE [hour |-> h, minute |-> m, second |-> s, nanosecond |-> 0]

\* NaiveDateTime: a date (day number) and a time of day
datetime_of(d, t) ==
    [date |-> d, hour |-> t.hour, minute |-> t.minute, second |-> t.second,
     nanosecond |-> t.nanosecond]

\* datetime.time()
time_of(dt) ==
    [hour |-> dt.hour, minute |-> dt.minute, second |-> dt.second,
     nanosecond |-> dt.nanosecond]

\* the derived order of NaiveTime (seconds since midnight, then the
\* fraction), as one number; the fraction is 0 or that of a leap second
TimeKey(t) == ((t.hour * 60 + t.minute) * 60 + t.second) * 2 + (t.nanosecond \div 1000000000)

\* the derived order of NaiveDateTime: the date, then the time
DtKey(dt) == (dt.date * 24 * 60 * 60 * 2) + TimeKey(time_of(dt))

\* the OhlcBar built for a parsed row
OhlcBar(dt, o, h, l, c, v) ==
    [datetime |-> dt, date |-> dt.date, time |-> time_of(dt),
     open |-> o, high |-> h, low |-> l, close |-> c, volume |-> v,
     candle_type |-> None, candle_val |-> None, signal |-> 0]

----------------------------------------------------------------------------
(* load_and_prepare_data: sort, then resample to 5-minute bars             *)

RECURSIVE insert_by_datetime(_, _)
insert_by_datetime(s, x) ==
    IF s = <<>> THEN <<x>>
    ELSE IF DtKey(s[Len(s)].datetime) <= DtKey(x.datetime) THEN Append(s, x)
    ELSE Append(insert_by_datetime(SubSeq(s, 1, Len(s) - 1), x), s[Len(s)])

\* parsed_data.sort_by(|a, b| a.datetime.cmp(&b.datetime)): a stable sort
RECURSIVE sort_by_datetime(_)
sort_by_datetime(s) ==
    IF s = <<>> THEN <<>>
    ELSE insert_by_datetime(sort_by_datetime(SubSeq(s, 1, Len(s) - 1)), s[Len(s)])

\* with_minute and with_second change one field each and keep the others,
\* the nanosecond included
round_to_5min(datetime) ==
    LET minute == datetime.minute
        rounded_minute == (minute \div 5) * 5
    IN  [[datetime EXCEPT !.minute = rounded_minute] EXCEPT !.second = 0]

f64_max(a, b) == IF a >= b THEN a ELSE b

f64_min(a, b) == IF a <= b THEN a ELSE b

\* f64::min on an accumulator that is f64::INFINITY (inf) or the number v
min_from_infinity(acc, b) ==
    IF acc.inf THEN [inf |-> FALSE, v |-> b]
    ELSE [inf |-> FALSE, v |-> f64_min(acc.v, b)]

\* bars.iter().map(|b| b.high).fold(0.0, f64::max)
RECURSIVE fold_high(_, _)
fold_high(acc, bars) ==
    IF bars = <<>> THEN acc
    ELSE fold_high(f64_max(acc, Head(bars).high), Tail(bars))

\* bars.iter().map(|b| b.low).fold(f64::INFINITY, f64::min)
RECURSIVE fold_low(_, _)
fold_low(acc, bars) ==
    IF bars = <<>> THEN acc
    ELSE fold_low(min_from_infinity(acc, Head(bars).low), Tail(bars))

\* bars.iter().map(|b| b.volume).sum()
RECURSIVE sum_volume(_)
sum_volume(bars) ==
    IF bars = <<>> THEN 0 ELSE Head(bars).volume + sum_volume(Tail(bars))

\* called on non-empty groups only (bars[0] panics otherwise)
aggregate_bars(bars) ==
    LET first == bars[1]
        last == bars[Len(bars)]
        open == first.open
        close == last.close
        high == fold_high(0, bars)
        low == fold_low([inf |-> TRUE, v |-> 0], bars).v
        volume == sum_volume(bars)
    IN  [datetime |-> round_to_5min(first.datetime),
         date |-> first.date,
         time |-> time_of(round_to_5min(first.datetime)),
         open |-> open, high |-> high, low |-> low, close |-> close,
         volume |-> volume,
         candle_type |-> None, candle_val |-> None, signal |-> 0]

\* one iteration of the `for bar in data` loop
create_5min_step(st, bar) ==
    LET bar_5min_start == round_to_5min(bar.datetime)
        cur == IF st.current_5min_start = None
               THEN Some(bar_5min_start) ELSE st.current_5min_start
    IN  IF cur = Some(bar_5min_start)
        THEN [five_min_bars |-> st.five_min_bars,
              current_group |-> Append(st.current_group, bar),
              current_5min_start |-> cur]
        ELSE [five_min_bars |->
                 IF st.current_group # <<>>
                 THEN Append(st.five_min_bars, aggregate_bars(st.current_group))
                 ELSE st.five_min_bars,
              current_group |-> <<bar>>,
              current_5min_start |-> Some(bar_5min_start)]

RECURSIVE create_5min_loop(_, _)
create_5min_loop(st, rest) ==
    IF rest = <<>> THEN st
    ELSE create_5min_loop(create_5min_step(st, Head(rest)), Tail(rest))

create_5min_bars(input) ==
    LET st == create_5min_loop([five_min_bars |-> <<>>,
                                current_group |-> <<>>,
                                current_5min_start |-> None], input)
    IN  IF st.current_group # <<>>
        THEN Append(st.five_min_bars, aggregate_bars(st.current_group))
        ELSE st.five_min_bars

LoadAndPrepareData ==
    /\ pc = "start"
    /\ data' = create_5min_bars(sort_by_datetime(parsed_data))
    /\ pc' = "loaded"
    /\ UNCHANGED <<parsed_data, trades, metrics>>

----------------------------------------------------------------------------
(* HashMap<K, V> as a function on the keys inserted so far                 *)

map_insert(m, k, v) == [x \in (DOMAIN m) \cup {k} |-> IF x = k THEN v ELSE m[x]]

----------------------------------------------------------------------------
(* identify_signal_candles                                                 *)

target_time == from_hms(9, 25, 0)

\* the (candle_type, candle_val) pair of a signal candle
candle_of(bar) ==
    <<IF bar.close > bar.open THEN "bullish" ELSE "bearish",
      IF bar.close > bar.open THEN bar.high ELSE bar.low>>

\* first loop: signal_map.insert(bar.date, ...) for every bar at target_time
RECURSIVE build_signal_map(_, _)
build_signal_map(m, bars) ==
    IF bars = <<>> THEN m
    ELSE LET bar == Head(bars)
         IN  build_signal_map(IF bar.time = target_time
                              THEN map_insert(m, bar.date, candle_of(bar))
                              ELSE m,
                              Tail(bars))

\* second loop: apply the signal information to all bars
apply_signal_map(m, bars) ==
    [i \in 1..Len(bars) |->
        IF bars[i].date \in DOMAIN m
        THEN [bars[i] EXCEPT !.candle_type = Some(m[bars[i].date][1]),
                             !.candle_val = Some(m[bars[i].date][2])]
        ELSE bars[i]]

identify_signal_candles(bars) == apply_signal_map(build_signal_map(<<>>, bars), bars)

IdentifySignalCandles ==
    /\ pc = "loaded"
    /\ data' = identify_signal_candles(data)
    /\ pc' = "candles"
    /\ UNCHANGED <<parsed_data, trades, metrics>>

----------------------------------------------------------------------------
(* generate_trading_signals                                                *)

signal_of(bar) ==
    IF bar.candle_type # None /\ bar.candle_val # None
    THEN LET candle_type == bar.candle_type[1]
             candle_val == bar.candle_val[1]
         IN  IF candle_type = "bearish" /\ bar.close < candle_val THEN -1
             ELSE IF candle_type = "bullish" /\ bar.close > candle_val THEN 1
             ELSE 0
    ELSE bar.signal

generate_trading_signals(bars) ==
    [i \in 1..Len(bars) |-> [bars[i] EXCEPT !.signal = signal_of(bars[i])]]

GenerateTradingSignals ==
    /\ pc = "candles"
    /\ data' = generate_trading_signals(data)
    /\ pc' = "signals"
    /\ UNCHANGED <<parsed_data, trades, metrics>>

----------------------------------------------------------------------------
(* identify_trades                                                         *)

start_time == from_hms(9, 30, 0)

end_time == from_hms(15, 15, 0)

exit_time == from_hms(15, 15, 0)

\* P&L amounts are counted in 1/pnl_scale price units ...
pnl_scale == 2500

\* ... in which the cost factor 0.0012 is cost_rate / pnl_scale
cost_rate == 3

f64_abs(x) == IF x < 0 THEN -x ELSE x

\* bar.time >= start_time && bar.time <= end_time
in_window(bar) ==
    /\ TimeKey(bar.time) >= TimeKey(start_time)
    /\ TimeKey(bar.time) <= TimeKey(end_time)

\* date_groups.entry(bar.date).or_insert_with(Vec::new).push(bar)
RECURSIVE build_date_groups(_, _)
build_date_groups(m, bars) ==
    IF bars = <<>> THEN m
    ELSE LET bar == Head(bars)
         IN  build_date_groups(
                 IF in_window(bar)
                 THEN map_insert(m, bar.date,
                          Append(IF bar.date \in DOMAIN m THEN m[bar.date] ELSE <<>>, bar))
                 ELSE m,
                 Tail(bars))

\* day_bars.iter().find(|bar| bar.signal != 0)
RECURSIVE find_first_signal(_)
find_first_signal(day_bars) ==
    IF day_bars = <<>> THEN None
    ELSE IF Head(day_bars).signal # 0 THEN Some(Head(day_bars))
    ELSE find_first_signal(Tail(day_bars))

\* day_bars.iter().find(|bar| bar.time == exit_time)
RECURSIVE find_exit_time(_)
find_exit_time(day_bars) ==
    IF day_bars = <<>> THEN None
    ELSE IF Head(day_bars).time = exit_time THEN Some(Head(day_bars))
    ELSE find_exit_time(Tail(day_bars))

\* .find(|bar| bar.time == exit_time).or_else(|| day_bars.last()).unwrap()
find_exit_bar(day_bars) ==
    LET found == find_exit_time(day_bars)
    IN  IF found # None THEN found[1] ELSE day_bars[Len(day_bars)]

make_trade_signed_cost(date, entry_bar, exit_bar) ==
    LET gross_pnl == IF entry_bar.signal = -1
                     THEN (entry_bar.close - exit_bar.open) * pnl_scale
                     ELSE (exit_bar.open - entry_bar.close) * pnl_scale
        transaction_cost == (exit_bar.open - entry_bar.close) * cost_rate
        net_pnl == gross_pnl - transaction_cost
    IN  [date |-> date,
         entry_time |-> entry_bar.datetime, entry_price |-> entry_bar.close,
         exit_time |-> exit_bar.datetime, exit_price |-> exit_bar.open,
         signal |-> entry_bar.signal,
         gross_pnl |-> gross_pnl, net_pnl |-> net_pnl]

\* the P&L computation and the Trade literal
make_trade(date, entry_bar, exit_bar) ==
    LET gross_pnl == IF entry_bar.signal = -1
                     THEN (entry_bar.close - exit_bar.open) * pnl_scale
                     ELSE (exit_bar.open - entry_bar.close) * pnl_scale
        transaction_cost == f64_abs(exit_bar.open - entry_bar.close) * cost_rate
        net_pnl == gross_pnl - transaction_cost
    IN  [date |-> date,
         entry_time |-> entry_bar.datetime, entry_price |-> entry_bar.close,
         exit_time |-> exit_bar.datetime, exit_price |-> exit_bar.open,
         signal |-> entry_bar.signal,
         gross_pnl |-> gross_pnl, net_pnl |-> net_pnl]

\* the body of `for (date, day_bars) in date_groups`: the trades it pushes
process_day(date, day_bars) ==
    LET first_signal == find_first_signal(day_bars)
    IN  IF first_signal # None
        THEN <<make_trade(date, first_signal[1], find_exit_bar(day_bars))>>
        ELSE <<>>

\* the loop over date_groups, visiting the dates in the given order
RECURSIVE process_days(_, _)
process_days(date_groups, order) ==
    IF order = <<>> THEN <<>>
    ELSE process_day(Head(order), date_groups[Head(order)])
            \o process_days(date_groups, Tail(order))

RECURSIVE insert_by_date(_, _)
insert_by_date(s, x) ==
    IF s = <<>> THEN <<x>>
    ELSE IF s[Len(s)].date <= x.date THEN Append(s, x)
    ELSE Append(insert_by_date(SubSeq(s, 1, Len(s) - 1), x), s[Len(s)])

sort_by_date_skipped(s) == s

\* self.trades.sort_by(|a, b| a.date.cmp(&b.date)): a stable sort
RECURSIVE sort_by_date(_)
sort_by_date(s) ==
    IF s = <<>> THEN <<>>
    ELSE insert_by_date(sort_by_date(SubSeq(s, 1, Len(s) - 1)), s[Len(s)])

\* the orders in which a HashMap with this key set may be iterated
iteration_orders(keys) ==
    {o \in [1..Cardinality(keys) -> keys] :
        \A i, j \in 1..Cardinality(keys) : o[i] = o[j] => i = j}

identify_trades(old_trades, bars, order) ==
    sort_by_date(old_trades \o process_days(build_date_groups(<<>>, bars), order))

IdentifyTrades ==
    /\ pc = "signals"
    /\ \E order \in iteration_orders(DOMAIN build_date_groups(<<>>, data)) :
           trades' = identify_trades(trades, data, order)
    /\ pc' = "trades"
    /\ UNCHANGED <<parsed_data, data, metrics>>

----------------------------------------------------------------------------
(* calculate_performance_metrics                                           *)

\* self.trades.iter().map(|t| t.net_pnl).sum()
RECURSIVE sum_net_pnl(_)
sum_net_pnl(ts) ==
    IF ts = <<>> THEN 0 ELSE Head(ts).net_pnl + sum_net_pnl(Tail(ts))

\* self.trades.iter().filter(|t| t.net_pnl > 0.0).collect()
RECURSIVE winning_trades(_)
winning_trades(ts) ==
    IF ts = <<>> THEN <<>>
    ELSE (IF Head(ts).net_pnl > 0 THEN <<Head(ts)>> ELSE <<>>) \o winning_trades(Tail(ts))

\* self.trades.iter().filter(|t| t.net_pnl < 0.0).collect()
RECURSIVE losing_trades(_)
losing_trades(ts) ==
    IF ts = <<>> THEN <<>>
    ELSE (IF Head(ts).net_pnl < 0 THEN <<Head(ts)>> ELSE <<>>) \o losing_trades(Tail(ts))

drawdown_step_last(st, trade) ==
    LET cum_pnl == st.cum_pnl + trade.net_pnl
        running_max == f64_max(st.running_max, cum_pnl)
        drawdown == cum_pnl - running_max
    IN  [cum_pnl |-> cum_pnl, running_max |-> running_max,
         max_drawdown |-> drawdown]

\* one iteration of the drawdown loop
drawdown_step(st, trade) ==
    LET cum_pnl == st.cum_pnl + trade.net_pnl
        running_max == f64_max(st.running_max, cum_pnl)
        drawdown == cum_pnl - running_max
    IN  [cum_pnl |-> cum_pnl, running_max |-> running_max,
         max_drawdown |-> f64_min(st.max_drawdown, drawdown)]

RECURSIVE drawdown_loop(_, _)
drawdown_loop(st, ts) ==
    IF ts = <<>> THEN st
    ELSE drawdown_loop(drawdown_step(st, Head(ts)), Tail(ts))

\* sum of (n * x - total)^2: n^2 times the sum of the (x - mean_pnl)^2, in
\* exact arithmetic; the f64 sum can differ from it by a rounding residue,
\* which sharpe_outcomes accounts for where it decides std_dev != 0.0
RECURSIVE sum_sq_dev(_, _, _)
sum_sq_dev(ts, n, total) ==
    IF ts = <<>> THEN 0
    ELSE (n * Head(ts).net_pnl - total) * (n * Head(ts).net_pnl - total)
            + sum_sq_dev(Tail(ts), n, total)

\* the early return for an empty trade list
zero_metrics ==
    [total_pnl |-> 0, max_drawdown |-> 0,
     sharpe_ratio |-> [num |-> 0, rad |-> 1], calmar_ratio |-> <<0, 1>>,
     win_rate |-> <<0, 1>>, avg_win |-> <<0, 1>>, avg_loss |-> <<0, 1>>,
     total_trades |-> 0]

wins_include_zero(ts) ==
    LET n == Len(ts)
        winning == SelectSeq(ts, LAMBDA t : t.net_pnl >= 0)
    IN  <<Len(winning) * 100, n>>

\* (winning_trades.len() as f64 / self.trades.len() as f64) * 100.0
win_rate_of(ts) ==
    LET n == Len(ts)
        winning == winning_trades(ts)
    IN  <<Len(winning) * 100, n>>

\* the values sharpe_ratio can take.  When the exact variance is not 0 it
\* is mean_pnl / std_dev: mean_pnl is total_pnl / n, variance is sq / n^3
\* and std_dev its square root, so the ratio is total_pnl / sqrt(sq / n),
\* where n divides sq = n * (n * sum of x^2 - total_pnl^2).  When the exact
\* variance is 0 the f64 variance is 0 too if total_pnl / n is computed
\* without rounding, which is certain for fewer than three trades and for
\* a total of 0; otherwise the rounding of the sum may leave mean_pnl one
\* ulp off the common net_pnl, std_dev != 0.0 holds, and the ratio is
\* mean_pnl over that residue: [num |-> total_pnl, rad |-> 0].
sharpe_outcomes(ts) ==
    LET n == Len(ts)
        total_pnl == sum_net_pnl(ts)
        sq == sum_sq_dev(ts, n, total_pnl)
    IN  IF sq # 0 THEN {[num |-> total_pnl, rad |-> sq \div n]}
        ELSE IF n >= 3 /\ total_pnl # 0
        THEN {[num |-> 0, rad |-> 1], [num |-> total_pnl, rad |-> 0]}
        ELSE {[num |-> 0, rad |-> 1]}

\* the computation after the early return, for one value of sharpe_ratio
metrics_of(ts, sharpe_ratio) ==
    LET n == Len(ts)
        total_pnl == sum_net_pnl(ts)
        dd == drawdown_loop([cum_pnl |-> 0, running_max |-> 0, max_drawdown |-> 0], ts)
        max_drawdown == dd.max_drawdown
        calmar_ratio == IF max_drawdown # 0
                        THEN <<total_pnl, n * f64_abs(max_drawdown)>>
                        ELSE <<0, 1>>
        winning == winning_trades(ts)
        losing == losing_trades(ts)
        win_rate == win_rate_of(ts)
        avg_win == IF winning # <<>> THEN <<sum_net_pnl(winning), Len(winning)>>
                   ELSE <<0, 1>>
        avg_loss == IF losing # <<>> THEN <<sum_net_pnl(losing), Len(losing)>>
                    ELSE <<0, 1>>
    IN  [total_pnl |-> total_pnl, max_drawdown |-> max_drawdown,
         sharpe_ratio |-> sharpe_ratio, calmar_ratio |-> calmar_ratio,
         win_rate |-> win_rate, avg_win |-> avg_win, avg_loss |-> avg_loss,
         total_trades |-> n]

calculate_performance_metrics_unguarded(ts) ==
    {metrics_of(ts, s) : s \in sharpe_outcomes(ts)}

\* the set of the PerformanceMetrics the call can return
calculate_performance_metrics(ts) ==
    IF ts = <<>> THEN {zero_metrics}
    ELSE {metrics_of(ts, s) : s \in sharpe_outcomes(ts)}

CalculatePerformanceMetrics ==
    /\ pc = "trades"
    /\ \E m \in calculate_performance_metrics(trades) : metrics' = Some(m)
    /\ pc' = "done"
    /\ UNCHANGED <<parsed_data, data, trades>>

----------------------------------------------------------------------------
(* The pipeline of main(), on CSV files whose rows are in time order       *)

MaxTicks == 4

\* the timestamps a row may carry, in time order: two dates, before, at and
\* after the signal candle, inside and after the trading window, with a
\* leap second inside the 09:25 and the 09:30 bucket
Menu ==
    <<datetime_of(1, parse_hms(9, 20, 0)), datetime_of(1, parse_hms(9, 25, 0)),
      datetime_of(1, parse_hms(9, 26, 60)), datetime_of(1, parse_hms(9, 27, 0)),
      datetime_of(1, parse_hms(9, 30, 0)), datetime_of(1, parse_hms(9, 31, 60)),
      datetime_of(1, parse_hms(9, 32, 0)), datetime_of(1, parse_hms(15, 15, 0)),
      datetime_of(1, parse_hms(15, 20, 0)),
      datetime_of(2, parse_hms(9, 25, 0)), datetime_of(2, parse_hms(9, 30, 0))>>

\* the prices a row may carry: a rising, a falling and a flat candle
Shapes ==
    {[open |-> 1, high |-> 2, low |-> 1, close |-> 2, volume |-> 1],
     [open |-> 4, high |-> 4, low |-> 3, close |-> 3, volume |-> 2],
     [open |-> 3, high |-> 3, low |-> 3, close |-> 3, volume |-> 1]}

RowOf(dt, p) == OhlcBar(dt, p.open, p.high, p.low, p.close, p.volume)

\* the file with one row for each chosen timestamp, in time order
RECURSIVE FileOf(_, _, _)
FileOf(T, f, i) ==
    IF i > Len(Menu) THEN <<>>
    ELSE (IF i \in T THEN <<RowOf(Menu[i], f[i])>> ELSE <<>>) \o FileOf(T, f, i + 1)

Init ==
    /\ pc = "start"
    /\ \E T \in {S \in SUBSET (1..Len(Menu)) : Cardinality(S) <= MaxTicks} :
           \E f \in [T -> Shapes] : parsed_data = FileOf(T, f, 1)
    /\ data = <<>>
    /\ trades = <<>>
    /\ metrics = None

Next ==
    \/ LoadAndPrepareData
    \/ IdentifySignalCandles
    \/ GenerateTradingSignals
    \/ IdentifyTrades
    \/ CalculatePerformanceMetrics

Spec == Init /\ [][Next]_vars

----------------------------------------------------------------------------
(* load_and_prepare_data alone, on files whose rows are in any order       *)

MaxRows == 3

RowTimes ==
    {datetime_of(1, parse_hms(9, 25, 0)), datetime_of(1, parse_hms(9, 26, 10)),
     datetime_of(1, parse_hms(9, 27, 30)), datetime_of(1, parse_hms(9, 29, 60)),
     datetime_of(1, parse_hms(9, 30, 0)), datetime_of(1, parse_hms(10, 25, 0)),
     datetime_of(2, parse_hms(9, 26, 10))}

RowShapes ==
    {[open |-> 1, high |-> 2, low |-> 1, close |-> 2, volume |-> 1],
     [open |-> -2, high |-> -1, low |-> -3, close |-> -2, volume |-> 3]}

Rows == {RowOf(dt, p) : dt \in RowTimes, p \in RowShapes}

InitBars ==
    /\ pc = "start"
    /\ \E n \in 0..MaxRows : parsed_data \in [1..n -> Rows]
    /\ data = <<>>
    /\ trades = <<>>
    /\ metrics = None

NextBars == LoadAndPrepareData

SpecBars == InitBars /\ [][NextBars]_vars

----------------------------------------------------------------------------
(* calculate_performance_metrics alone, on trade lists identify_trades can *)
(* leave: one trade per date, in date order                                *)

MaxTrades == 3

\* (signal, entry close, exit open) of a trade
TradeKinds == {<<sg, e, x>> : sg \in {-1, 1}, e \in {1, 2}, x \in {1, 2}}

TradeOf(d, k) ==
    make_trade(d,
        [RowOf(datetime_of(d, parse_hms(9, 30, 0)),
               [open |-> k[2], high |-> k[2], low |-> k[2], close |-> k[2], volume |-> 1])
            EXCEPT !.signal = k[1]],
        RowOf(datetime_of(d, parse_hms(15, 15, 0)),
              [open |-> k[3], high |-> k[3], low |-> k[3], close |-> k[3], volume |-> 1]))

InitPerf ==
    /\ pc = "trades"
    /\ parsed_data = <<>>
    /\ data = <<>>
    /\ \E n \in 0..MaxTrades : \E ks \in [1..n -> TradeKinds] :
           trades = [i \in 1..n |-> TradeOf(i, ks[i])]
    /\ metrics = None

NextPerf == CalculatePerformanceMetrics

SpecPerf == InitPerf /\ [][NextPerf]_vars

----------------------------------------------------------------------------
(* Vocabulary of the properties                                            *)

MaxOf(S) == CHOOSE x \in S : \A y \in S : y <= x

MinOf(S) == CHOOSE x \in S : \A y \in S : x <= y

\* the sum of f[x] over the x in S
RECURSIVE SumOver(_, _)
SumOver(S, f) ==
    IF S = {} THEN 0
    ELSE LET x == CHOOSE y \in S : TRUE IN f[x] + SumOver(S \ {x}, f)

\* a fraction <<numerator, denominator>> that is a number, and is zero
IsZero(q) == q[1] = 0 /\ q[2] # 0

\* the start of the 5-minute bucket a timestamp falls in
Bucket(dt) == [date |-> dt.date, hour |-> dt.hour,
               minute |-> dt.minute - (dt.minute % 5), second |-> 0,
               nanosecond |-> 0]

\* the groups of ticks that create_5min_bars hands to aggregate_bars: the
\* maximal runs of consecutive ticks with the same rounded timestamp
RECURSIVE RunsOf(_)
RunsOf(s) ==
    IF s = <<>> THEN <<>>
    ELSE LET r == RunsOf(SubSeq(s, 1, Len(s) - 1))
             x == s[Len(s)]
         IN  IF /\ r # <<>>
                /\ round_to_5min(r[Len(r)][1].datetime) = round_to_5min(x.datetime)
             THEN [r EXCEPT ![Len(r)] = Append(@, x)]
             ELSE Append(r, <<x>>)

Bars == 1..Len(data)

Trades == 1..Len(trades)

InTradingWindow(i) ==
    /\ TimeKey(data[i].time) >= TimeKey(from_hms(9, 30, 0))
    /\ TimeKey(data[i].time) <= TimeKey(from_hms(15, 15, 0))

\* the bars of a date inside the trading window
WindowBars(d) == {i \in Bars : data[i].date = d /\ InTradingWindow(i)}

\* the bars of a date inside the trading window whose signal is not zero
Candidates(d) == {i \in WindowBars(d) : data[i].signal # 0}

\* the signal candles of a date
SignalCandles(d) == {j \in Bars : data[j].date = d /\ data[j].time = from_hms(9, 25, 0)}

\* cumulative net P&L after the first k trades
Cum(k) == SumOver(1..k, [i \in 1..k |-> trades[i].net_pnl])

----------------------------------------------------------------------------
(* C2 and C3: resampling                                                   *)

\* C2: every emitted bar has the open of the first tick of its group, the
\* close of the last, the maximum of the highs, the minimum of the lows and
\* the sum of the volumes.
C2_BarAggregatesItsGroup ==
    pc = "loaded" =>
        \A i \in Bars :
            LET g == RunsOf(sort_by_datetime(parsed_data))[i]
            IN  /\ g # <<>>
                /\ data[i].open = g[1].open
                /\ data[i].close = g[Len(g)].close
                /\ data[i].high = MaxOf({g[k].high : k \in 1..Len(g)})
                /\ data[i].low = MinOf({g[k].low : k \in 1..Len(g)})
                /\ data[i].volume = SumOver(1..Len(g), [k \in 1..Len(g) |-> g[k].volume])

\* C3: the bars are exactly the non-empty 5-minute buckets of the ticks, one
\* bar each, every bar stamped with its bucket start, in strictly ascending
\* time order.
C3_OneBarPerBucket ==
    pc = "loaded" =>
        /\ {data[i].datetime : i \in Bars}
              = {Bucket(parsed_data[k].datetime) : k \in 1..Len(parsed_data)}
        /\ \A i \in Bars :
              /\ data[i].datetime.minute % 5 = 0
              /\ data[i].datetime.second = 0
              /\ data[i].time = time_of(data[i].datetime)
        /\ \A i, j \in Bars : i < j => DtKey(data[i].datetime) < DtKey(data[j].datetime)

----------------------------------------------------------------------------
(* C4: signals                                                             *)

\* C4: a bar of a date with a 09:25 bar S has signal +1 if S rose and the
\* bar closed above S.high, -1 if S did not rise and the bar closed below
\* S.low, else 0; a bar of a date without a 09:25 bar has no classification
\* and signal 0.
C4_SignalFollowsSignalCandle ==
    pc \in {"signals", "trades", "done"} =>
        \A i \in Bars :
            LET b == data[i]
            IN  /\ \A j \in SignalCandles(b.date) :
                      LET S == data[j]
                      IN  b.signal =
                              IF S.close > S.open /\ b.close > S.high THEN 1
                              ELSE IF S.close <= S.open /\ b.close < S.low THEN -1
                              ELSE 0
                /\ SignalCandles(b.date) = {} =>
                      /\ b.candle_type = None
                      /\ b.candle_val = None
                      /\ b.signal = 0

----------------------------------------------------------------------------
(* C5 to C8: trades                                                        *)

\* C5: the trade of a date is entered at the earliest bar of the window
\* [09:30, 15:15] with a nonzero signal, whatever the order in which the
\* dates are visited; a date without such a bar has no trade.
C5_EntryIsEarliestCandidate ==
    pc \in {"trades", "done"} =>
        \A d \in {data[i].date : i \in Bars} :
            IF Candidates(d) = {}
            THEN \A t \in Trades : trades[t].date # d
            ELSE /\ \E t \in Trades : trades[t].date = d
                 /\ \A t \in Trades : trades[t].date = d =>
                       \E i \in Candidates(d) :
                           /\ trades[t].entry_time = data[i].datetime
                           /\ \A j \in Candidates(d) :
                                 DtKey(data[i].datetime) <= DtKey(data[j].datetime)

\* C6: a trade exits at the 15:15 bar of its date if there is one, else at
\* the last bar of its date inside the window, and never before its entry.
C6_ExitBar ==
    pc \in {"trades", "done"} =>
        \A t \in Trades :
            LET W == WindowBars(trades[t].date)
                E == {i \in W : data[i].time = from_hms(15, 15, 0)}
            IN  /\ W # {}
                /\ E # {} => \A i \in E : trades[t].exit_time = data[i].datetime
                /\ E = {} =>
                      \E i \in W :
                          /\ trades[t].exit_time = data[i].datetime
                          /\ \A j \in W : DtKey(data[j].datetime) <= DtKey(data[i].datetime)
                /\ DtKey(trades[t].exit_time) >= DtKey(trades[t].entry_time)

\* the trades of the dates visited in ascending order, before any sorting
TradesInDateOrder ==
    LET groups == build_date_groups(<<>>, data)
        ascending == CHOOSE o \in iteration_orders(DOMAIN groups) :
                         \A i, j \in DOMAIN o : i < j => o[i] < o[j]
    IN  process_days(groups, ascending)

\* C7: the trade list has at most one trade per date, is in ascending date
\* order, and is the same whatever the order in which the dates are visited.
C7_TradesDeterministic ==
    pc \in {"trades", "done"} =>
        /\ \A s, t \in Trades : s < t => trades[s].date < trades[t].date
        /\ trades = TradesInDateOrder

\* both dates have a trade
C7_Witness ==
    /\ pc = "trades"
    /\ Len(trades) = 2

\* C8: a trade has signal -1 or +1, the close of its entry bar as entry
\* price, the open of its exit bar as exit price, the gross P&L of its
\* direction, and a net P&L that is the gross P&L less 0.0012 times the
\* absolute price move, hence never above the gross P&L.
C8_TradePnl ==
    pc \in {"trades", "done"} =>
        \A t \in Trades :
            /\ trades[t].signal \in {-1, 1}
            /\ \E e, x \in Bars :
                  /\ data[e].datetime = trades[t].entry_time
                  /\ data[x].datetime = trades[t].exit_time
                  /\ trades[t].signal = data[e].signal
                  /\ trades[t].entry_price = data[e].close
                  /\ trades[t].exit_price = data[x].open
                  /\ trades[t].gross_pnl =
                        IF trades[t].signal = -1
                        THEN (data[e].close - data[x].open) * 2500
                        ELSE (data[x].open - data[e].close) * 2500
                  /\ LET move == data[x].open - data[e].close
                     IN  trades[t].net_pnl =
                            trades[t].gross_pnl - (IF move < 0 THEN -move ELSE move) * 3
            /\ trades[t].net_pnl <= trades[t].gross_pnl

\* a winning short trade: the exit price is below the entry price
C8_Witness ==
    /\ pc = "trades"
    /\ \E t \in Trades :
          /\ trades[t].signal = -1
          /\ trades[t].exit_price < trades[t].entry_price
          /\ trades[t].net_pnl < trades[t].gross_pnl

----------------------------------------------------------------------------
(* C1, C9 and C10: performance metrics                                     *)

\* C1 as claimed: max_drawdown is the most negative value, over the prefixes
\* of the trade list, of the cumulative net P&L less the largest cumulative
\* net P&L observed up to that prefix, and 0 if none is negative.
C1_DrawdownFromObservedPeak ==
    pc = "done" /\ trades # <<>> =>
        metrics[1].max_drawdown =
            MinOf({0} \cup {Cum(k) - MaxOf({Cum(j) : j \in 1..k}) : k \in Trades})

\* C1 as amended: the running maximum starts at 0, the cumulative P&L before
\* the first trade, and max_drawdown is the most negative value, over the
\* prefixes, of the cumulative net P&L less the largest of 0 and the
\* cumulative values up to that prefix.
C1_DrawdownFromPeakOrZero ==
    pc = "done" /\ trades # <<>> =>
        metrics[1].max_drawdown =
            MinOf({0} \cup {Cum(k) - MaxOf({0} \cup {Cum(j) : j \in 1..k}) : k \in Trades})

\* a list that opens with a loss, then recovers part of it
C1_Witness ==
    /\ pc = "done"
    /\ Len(trades) >= 2
    /\ trades[1].net_pnl < 0
    /\ trades[Len(trades)].net_pnl > 0
    /\ metrics[1].max_drawdown < 0

\* C9: win_rate is 100 times the share of trades with net_pnl > 0, between
\* 0 and 100; avg_win is the mean net_pnl of the trades with net_pnl > 0 and
\* avg_loss that of the trades with net_pnl < 0, each 0 when there is none;
\* a trade with net_pnl = 0 counts in n only.
C9_WinRateAndAverages ==
    pc = "done" /\ trades # <<>> =>
        LET m == metrics[1]
            n == Len(trades)
            net == [i \in Trades |-> trades[i].net_pnl]
            W == {i \in Trades : trades[i].net_pnl > 0}
            L == {i \in Trades : trades[i].net_pnl < 0}
        IN  /\ m.total_trades = n
            /\ m.win_rate[2] > 0
            /\ m.win_rate[1] * n = 100 * Cardinality(W) * m.win_rate[2]
            /\ 0 <= m.win_rate[1]
            /\ m.win_rate[1] <= 100 * m.win_rate[2]
            /\ m.avg_win[2] > 0
            /\ m.avg_win[1] * Cardinality(W) = SumOver(W, net) * m.avg_win[2]
            /\ W = {} => IsZero(m.avg_win)
            /\ m.avg_loss[2] > 0
            /\ m.avg_loss[1] * Cardinality(L) = SumOver(L, net) * m.avg_loss[2]
            /\ L = {} => IsZero(m.avg_loss)

\* a winning, a losing and a break-even trade
C9_Witness ==
    /\ pc = "done"
    /\ \E i, j, k \in Trades :
          /\ trades[i].net_pnl > 0
          /\ trades[j].net_pnl < 0
          /\ trades[k].net_pnl = 0

\* C10: on an empty trade list the metrics are all 0 with trade count 0,
\* and computing the metrics changes neither the bars nor the trades.
C10_EmptyTradesZeroMetrics ==
    /\ [](pc = "done" /\ trades = <<>> =>
            /\ metrics # None
            /\ metrics[1].total_pnl = 0
            /\ metrics[1].max_drawdown = 0
            /\ metrics[1].sharpe_ratio.num = 0
            /\ metrics[1].sharpe_ratio.rad > 0
            /\ IsZero(metrics[1].calmar_ratio)
            /\ IsZero(metrics[1].win_rate)
            /\ IsZero(metrics[1].avg_win)
            /\ IsZero(metrics[1].avg_loss)
            /\ metrics[1].total_trades = 0)
    /\ [][pc = "trades" /\ pc' = "done" => data' = data /\ trades' = trades]_vars

\* the metrics of a run that loaded bars and found no trade
C10_Witness ==
    /\ pc = "done"
    /\ data # <<>>
    /\ trades = <<>>
    /\ metrics # None

====
